---- MODULE Spec2Model ----
(***************************************************************************)
(* MediaDrop download queue (src/src/App.tsx): the queue of media items,   *)
(* the single-item transfer downloadFile, the batch loop downloadAll and   *)
(* the capped download history.                                            *)
(*                                                                         *)
(* Strings are sequences of one-character strings.  React state is the     *)
(* committed value; a functional updater setX(prev => ...) is applied to   *)
(* the latest value.  A handler that awaits keeps the values it captured   *)
(* when it was called (its item, its snapshot of mediaItems).               *)
(***************************************************************************)
EXTENDS Integers, Sequences, FiniteSets, Bags, TLC

\* ------------------------------------------------------------------ bounds
MaxAdds == 2         \* addMediaItem calls explored by Spec
MaxBatches == 1      \* downloadAll calls in flight together
MaxSlots == 2        \* downloadAll calls in flight together in SpecOverlap
MaxReceived == 2     \* bytes a stream delivers in Spec
MaxNow == 1          \* last value of the free-running clock
MaxQueueItems == 2   \* queue length explored by SpecQueue
MaxPastes == 1       \* handlePaste calls waiting for the clipboard
MaxRunLog == 2       \* transfers explored by SpecRun between two clearHistory
MaxRunReceived == 3  \* bytes a stream delivers in SpecRun
MaxHistLog == 52     \* completions explored by SpecHist and SpecCap
MaxCapRuns == 2      \* transfers in flight together in SpecCap

\* ----------------------------------------------------------------- strings
Min(a, b) == IF a < b THEN a ELSE b

UpperChars == <<"A","B","C","D","E","F","G","H","I","J","K","L","M",
                "N","O","P","Q","R","S","T","U","V","W","X","Y","Z">>
LowerChars == <<"a","b","c","d","e","f","g","h","i","j","k","l","m",
                "n","o","p","q","r","s","t","u","v","w","x","y","z">>

\* String.prototype.toLowerCase, character by character
ToLowerChar(c) ==
  IF \E i \in 1..Len(UpperChars) : UpperChars[i] = c
  THEN LowerChars[CHOOSE i \in 1..Len(UpperChars) : UpperChars[i] = c]
  ELSE c

ToLowerCase(s) == [i \in 1..Len(s) |-> ToLowerChar(s[i])]

IsSpace(c) == c = " "

\* String.prototype.trim: drops the leading and trailing white space
Trim(s) ==
  LET keep == {i \in 1..Len(s) : ~IsSpace(s[i])}
  IN IF keep = {} THEN <<>>
     ELSE LET lo == CHOOSE i \in keep : \A j \in keep : i <= j
              hi == CHOOSE i \in keep : \A j \in keep : j <= i
          IN SubSeq(s, lo, hi)

Includes(s, c) == \E i \in 1..Len(s) : s[i] = c

StartsWith(s, p) == Len(s) >= Len(p) /\ SubSeq(s, 1, Len(p)) = p

\* s.split(c).pop(): the part of s after the last c, all of s without a c
LastPart(s, c) ==
  LET at == {i \in 1..Len(s) : s[i] = c}
  IN IF at = {} THEN s
     ELSE LET last == CHOOSE i \in at : \A j \in at : j <= i
          IN SubSeq(s, last + 1, Len(s))

\* -------------------------------------------------------------------- URLs
HttpScheme == <<"h","t","t","p",":","/","/">>
HttpsScheme == <<"h","t","t","p","s",":","/","/">>

SchemeLen(s) ==
  IF StartsWith(s, HttpsScheme) THEN Len(HttpsScheme)
  ELSE IF StartsWith(s, HttpScheme) THEN Len(HttpScheme)
  ELSE 0

\* index of the first character of s after position from that ends the
\* host (or the path when stop holds "?" and "#" only); Len(s)+1 if none
FirstOf(s, from, stop) ==
  LET at == {i \in (from + 1)..Len(s) : s[i] \in stop}
  IN IF at = {} THEN Len(s) + 1
     ELSE CHOOSE i \in at : \A j \in at : i <= j

HostOf(s) == SubSeq(s, SchemeLen(s) + 1, FirstOf(s, SchemeLen(s), {"/","?","#"}) - 1)

\* new URL(url) throws a TypeError: for the http(s) strings explored here,
\* when there is no scheme, the host is empty or the host holds a space
URLThrows(s) ==
  \/ SchemeLen(s) = 0
  \/ HostOf(s) = <<>>
  \/ Includes(HostOf(s), " ")

\* new URL(url).pathname of a string that parses
Pathname(s) ==
  LET hostEnd == FirstOf(s, SchemeLen(s), {"/","?","#"})
      pathEnd == FirstOf(s, SchemeLen(s), {"?","#"})
      path == SubSeq(s, hostEnd, pathEnd - 1)
  IN IF path = <<>> THEN <<"/">> ELSE path

\* -------------------------------------------------------------- classifier
Download == <<"d","o","w","n","l","o","a","d">>

imageExts == { <<"j","p","g">>, <<"j","p","e","g">>, <<"p","n","g">>,
               <<"g","i","f">>, <<"w","e","b","p">>, <<"s","v","g">>,
               <<"b","m","p">> }
videoExts == { <<"m","p","4">>, <<"w","e","b","m">>, <<"a","v","i">>,
               <<"m","o","v">>, <<"w","m","v">>, <<"f","l","v">>,
               <<"m","k","v">> }

\* getFileExtension of a url that parses (it throws when new URL throws)
getFileExtension(url) == ToLowerCase(LastPart(Pathname(url), "."))

getMediaType(url) ==
  LET ext == getFileExtension(url)
  IN IF ext \in imageExts THEN "image"
     ELSE IF ext \in videoExts THEN "video"
     ELSE "image"

\* generateFilename of a url that parses; for one that does not, the catch
\* block calls getFileExtension, which throws again
generateFilename(url) ==
  LET seg == LastPart(Pathname(url), "/")
      filename == IF seg = <<>> THEN Download ELSE seg
  IN IF Includes(filename, ".") THEN filename
     ELSE filename \o <<".">> \o getFileExtension(url)

\* getFileExtension(url) throws: new URL(url) is outside any try block
getFileExtensionThrows(url) == URLThrows(url)

\* getMediaType(url) throws: it calls getFileExtension outside any try block
getMediaTypeThrows(url) == getFileExtensionThrows(url)

\* generateFilename(url) throws: its catch block, entered when new URL(url)
\* throws, calls getFileExtension
generateFilenameThrows(url) == URLThrows(url) /\ getFileExtensionThrows(url)

\* ------------------------------------------------------------------- state
VARIABLES
  mediaItems,       \* useState<MediaItem[]>: the queue
  downloadHistory,  \* useState<DownloadHistory[]>: the log, newest first
  now,              \* the value Date.now() returns
  runs,             \* downloadFile calls in flight
  batches,          \* downloadAll calls in progress, one per slot
  pastes,           \* handlePaste calls waiting for the clipboard
  uncaught,         \* the last handler that called addMediaItem threw
  completions       \* ghost: entries logged since the log was last emptied

vars == <<mediaItems, downloadHistory, now, runs, batches, pastes, uncaught,
          completions>>

\* slice(0, 49) of line 187: the entries kept below a new head
HistoryKeep == 49

\* an optional number: <<>> is undefined, <<p>> is the number p
Undefined == <<>>
Some(p) == <<p>>

Statuses == {"pending", "downloading", "completed", "error"}

\* a slot no downloadAll call is using
Idle == [pendingItems |-> <<>>, idx |-> 0, pc |-> "idle", ran |-> <<>>]

Init ==
  /\ mediaItems = <<>>
  /\ downloadHistory = <<>>
  /\ now = 0
  /\ runs = EmptyBag
  /\ batches = [b \in 1..MaxSlots |-> Idle]
  /\ pastes = <<>>
  /\ uncaught = FALSE
  /\ completions = <<>>

RemoveAt(s, k) == SubSeq(s, 1, k - 1) \o SubSeq(s, k + 1, Len(s))

HasId(items, id) == \E i \in 1..Len(items) : items[i].id = id

\* ------------------------------------------------------------- queue store
\* the item addMediaItem builds; Date.now().toString() is the decimal
\* numeral of the clock value, kept here as the number it denotes
NewItem(trimmedUrl, t) ==
  [ id |-> t,
    url |-> trimmedUrl,
    type |-> getMediaType(trimmedUrl),
    filename |-> generateFilename(trimmedUrl),
    status |-> "pending",
    progress |-> Undefined ]

\* addMediaItem(url) of the render whose mediaItems is snapshot, applied to
\* the latest queue prev: the queue it leaves.  getMediaType throws on a
\* url that does not parse, before setMediaItems is reached.
addMediaItem(prev, snapshot, url, t) ==
  LET trimmedUrl == Trim(url)
  IN IF trimmedUrl = <<>>
        \/ \E i \in 1..Len(snapshot) : snapshot[i].url = trimmedUrl
     THEN prev
     ELSE IF getMediaTypeThrows(trimmedUrl) \/ generateFilenameThrows(trimmedUrl)
     THEN prev
     ELSE Append(prev, NewItem(trimmedUrl, t))

\* addMediaItem(url) of that render throws: new URL(trimmedUrl) throws in
\* getFileExtension, called by getMediaType outside any try block
addMediaItemThrows(snapshot, url) ==
  LET trimmedUrl == Trim(url)
  IN /\ trimmedUrl # <<>>
     /\ \A i \in 1..Len(snapshot) : snapshot[i].url # trimmedUrl
     /\ (getMediaTypeThrows(trimmedUrl) \/ generateFilenameThrows(trimmedUrl))

\* addMediaItem called from a handler of the current render, which does
\* not catch
AddMediaItem(url) ==
  /\ mediaItems' = addMediaItem(mediaItems, mediaItems, url, now)
  /\ uncaught' = addMediaItemThrows(mediaItems, url)
  /\ UNCHANGED <<downloadHistory, now, runs, batches, pastes, completions>>

\* handleUrlSubmit with urlInput = url
HandleUrlSubmit(url) ==
  IF Trim(url) # <<>> THEN AddMediaItem(url) ELSE UNCHANGED vars

IsHttp(text) == StartsWith(text, HttpScheme) \/ StartsWith(text, HttpsScheme)

\* handleDrop with dataTransfer text = text
HandleDrop(text) ==
  IF text # <<>> /\ IsHttp(text) THEN AddMediaItem(text) ELSE UNCHANGED vars

\* handlePaste up to its await: the call keeps the addMediaItem of the
\* render it was clicked in, that is, that render's mediaItems
HandlePaste ==
  /\ pastes' = Append(pastes, mediaItems)
  /\ UNCHANGED <<mediaItems, downloadHistory, now, runs, batches, uncaught,
               completions>>

\* clipboard.readText() resolves with text; the catch block of handlePaste
\* swallows what addMediaItem throws
PasteResolve(p, text) ==
  /\ p \in 1..Len(pastes)
  /\ mediaItems' = IF text # <<>> /\ IsHttp(text)
                   THEN addMediaItem(mediaItems, pastes[p], text, now)
                   ELSE mediaItems
  /\ pastes' = RemoveAt(pastes, p)
  /\ uncaught' = FALSE
  /\ UNCHANGED <<downloadHistory, now, runs, batches, completions>>

\* clipboard.readText() rejects: logged, nothing else
PasteReject(p) ==
  /\ p \in 1..Len(pastes)
  /\ pastes' = RemoveAt(pastes, p)
  /\ UNCHANGED <<mediaItems, downloadHistory, now, runs, batches, uncaught,
               completions>>

removeMediaItem(prev, id) == SelectSeq(prev, LAMBDA item : item.id # id)

\* the X button of the item at position i
RemoveMediaItem(i) ==
  /\ i \in 1..Len(mediaItems)
  /\ mediaItems' = removeMediaItem(mediaItems, mediaItems[i].id)
  /\ UNCHANGED <<downloadHistory, now, runs, batches, pastes, completions, uncaught>>

\* faulty variant: the filter drops the items in error too
clearFinished(prev) ==
  SelectSeq(prev, LAMBDA item : item.status \notin {"completed", "error"})

clearCompleted(prev) == SelectSeq(prev, LAMBDA item : item.status # "completed")

\* the Clear Completed button, rendered while the queue is not empty
ClearCompleted ==
  /\ Len(mediaItems) > 0
  /\ mediaItems' = clearCompleted(mediaItems)
  /\ UNCHANGED <<downloadHistory, now, runs, batches, pastes, completions, uncaught>>

\* the Clear History button, rendered while the log is not empty
ClearHistory ==
  /\ Len(downloadHistory) > 0
  /\ downloadHistory' = <<>>
  /\ completions' = <<>>
  /\ UNCHANGED <<mediaItems, now, runs, batches, pastes, uncaught>>

\* the clock advances
Tick ==
  /\ now < MaxNow
  /\ now' = now + 1
  /\ UNCHANGED <<mediaItems, downloadHistory, runs, batches, pastes, completions,
               uncaught>>

\* --------------------------------------------------------- transfer engine
MapItems(prev, f(_)) == [i \in 1..Len(prev) |-> f(prev[i])]

\* lines 131-133
SetDownloading(prev, id) ==
  MapItems(prev, LAMBDA i :
    IF i.id = id THEN [i EXCEPT !.status = "downloading", !.progress = Some(0)]
    ELSE i)

\* lines 156-158
SetProgress(prev, id, progress) ==
  MapItems(prev, LAMBDA i :
    IF i.id = id THEN [i EXCEPT !.progress = Some(progress)] ELSE i)

\* faulty variant: the final update leaves the progress where the last chunk put it
SetCompletedKeepProgress(prev, id) ==
  MapItems(prev, LAMBDA i :
    IF i.id = id THEN [i EXCEPT !.status = "completed"] ELSE i)

\* lines 175-177
SetCompleted(prev, id) ==
  MapItems(prev, LAMBDA i :
    IF i.id = id THEN [i EXCEPT !.status = "completed", !.progress = Some(100)]
    ELSE i)

\* faulty variant: the catch block resets the progress
SetErrorResetProgress(prev, id) ==
  MapItems(prev, LAMBDA i :
    IF i.id = id THEN [i EXCEPT !.status = "error", !.progress = Some(0)] ELSE i)

\* faulty variant: the update forgets the test of the id
SetErrorAll(prev, id) ==
  MapItems(prev, LAMBDA i : [i EXCEPT !.status = "error"])

\* lines 191-193
SetError(prev, id) ==
  MapItems(prev, LAMBDA i :
    IF i.id = id THEN [i EXCEPT !.status = "error"] ELSE i)

\* (received / total) * 100; the totals explored are powers of two, for
\* which the floating-point quotient and product are exact
Percent(received, total) == (received * 100) \div total

\* lines 180-186
HistoryItem(item, t) ==
  [ id |-> t,
    filename |-> item.filename,
    url |-> item.url,
    type |-> item.type,
    downloadedAt |-> t ]

\* faulty variant: the new entry is put on an unsliced log
PushHistoryUncapped(prev, historyItem) == <<historyItem>> \o prev

\* faulty variant: the slice keeps one entry too few
PushHistoryShort(prev, historyItem) ==
  <<historyItem>> \o SubSeq(prev, 1, Min(HistoryKeep - 1, Len(prev)))

\* faulty variant: the new entry is put below the entries kept
PushHistoryAtEnd(prev, historyItem) ==
  Append(SubSeq(prev, 1, Min(HistoryKeep, Len(prev))), historyItem)

\* the updater of line 187
PushHistory(prev, historyItem) ==
  <<historyItem>> \o SubSeq(prev, 1, Min(HistoryKeep, Len(prev)))

\* what downloadFile reads of the item it was called with
Captured(item) ==
  [id |-> item.id, url |-> item.url, type |-> item.type, filename |-> item.filename]

\* downloadFile(item) up to its first await, called by owner (0: a Download
\* button, b > 0: the downloadAll call batches[b])
BeginRun(item, owner) ==
  /\ mediaItems' = SetDownloading(mediaItems, item.id)
  /\ runs' = runs (+) SetToBag({[ item |-> Captured(item), owner |-> owner,
                                   pc |-> "fetch", total |-> 0, received |-> 0 ]})

\* the Download button of the item at position i, rendered while pending
DownloadFile(i) ==
  /\ i \in 1..Len(mediaItems)
  /\ mediaItems[i].status = "pending"
  /\ BeginRun(mediaItems[i], 0)
  /\ UNCHANGED <<downloadHistory, now, batches, pastes, completions, uncaught>>

\* the downloadFile calls in flight
Running == BagToSet(runs)

\* downloadFile returns to its caller: a downloadAll call goes on to its
\* 500 ms timer
Return(r) ==
  /\ runs' = runs (-) SetToBag({r})
  /\ batches' = IF r.owner = 0 THEN batches
                ELSE [batches EXCEPT ![r.owner].pc = "delay"]

\* faulty variant: the catch block rethrows, which ends the loop of the caller
FailRethrows(r) ==
  /\ mediaItems' = SetError(mediaItems, r.item.id)
  /\ runs' = runs (-) SetToBag({r})
  /\ batches' = IF r.owner = 0 THEN batches
                ELSE [batches EXCEPT ![r.owner] = Idle]
  /\ UNCHANGED <<downloadHistory, now, pastes, completions, uncaught>>

\* faulty variant: the catch block logs the error and leaves the status alone
FailKeepsStatus(r) ==
  /\ Return(r)
  /\ UNCHANGED <<mediaItems, downloadHistory, now, pastes, completions, uncaught>>

\* the catch block, lines 189-194
Fail(r) ==
  /\ mediaItems' = SetError(mediaItems, r.item.id)
  /\ Return(r)
  /\ UNCHANGED <<downloadHistory, now, pastes, completions, uncaught>>

\* lines 163-187
Complete(r) ==
  /\ mediaItems' = SetCompleted(mediaItems, r.item.id)
  /\ downloadHistory' = PushHistory(downloadHistory, HistoryItem(r.item, now))
  /\ completions' = Append(completions, HistoryItem(r.item, now))
  /\ Return(r)
  /\ UNCHANGED <<now, pastes, uncaught>>

\* fetch rejects (network error)
FetchReject(r) ==
  /\ r \in Running
  /\ r.pc = "fetch"
  /\ Fail(r)

\* fetch resolves: ok is response.ok, hasBody is response.body # null,
\* total is the parsed content-length (0: absent, "0" or not a number)
FetchRespond(r, ok, hasBody, total) ==
  /\ r \in Running
  /\ r.pc = "fetch"
  /\ IF ~ok THEN Fail(r)
     ELSE IF ~hasBody THEN Complete(r)
     ELSE /\ runs' = (runs (-) SetToBag({r}))
                       (+) SetToBag({[r EXCEPT !.pc = "read", !.total = total]})
          /\ UNCHANGED <<mediaItems, downloadHistory, now, batches, pastes,
                       completions, uncaught>>

\* reader.read() resolves with a chunk of n bytes
ReadChunk(r, n) ==
  /\ r \in Running
  /\ r.pc = "read"
  /\ runs' = (runs (-) SetToBag({r}))
               (+) SetToBag({[r EXCEPT !.received = @ + n]})
  /\ mediaItems' = IF r.total > 0
                   THEN SetProgress(mediaItems, r.item.id,
                                    Percent(r.received + n, r.total))
                   ELSE mediaItems
  /\ UNCHANGED <<downloadHistory, now, batches, pastes, completions, uncaught>>

\* reader.read() resolves with done
ReadDone(r) ==
  /\ r \in Running
  /\ r.pc = "read"
  /\ Complete(r)

\* reader.read() rejects
ReadError(r) ==
  /\ r \in Running
  /\ r.pc = "read"
  /\ Fail(r)

\* ------------------------------------------------------ batch orchestrator
\* faulty variant: the snapshot takes every item of the queue
PendingItemsUnfiltered(items) == items

\* line 198
PendingItems(items) == SelectSeq(items, LAMBDA item : item.status = "pending")

\* faulty variant: the loop does not await downloadFile, its timer is set while the
\* transfer is in flight
DownloadAllUnawaited(b) ==
  LET pendingItems == SelectSeq(mediaItems, LAMBDA item : item.status = "pending")
  IN /\ b \in DOMAIN batches
     /\ batches[b].pc = "idle"
     /\ \A c \in DOMAIN batches : c < b => batches[c].pc # "idle"
     /\ pendingItems # <<>>
     /\ batches' = [batches EXCEPT ![b] =
                      [ pendingItems |-> pendingItems, idx |-> 1,
                        pc |-> "delay", ran |-> <<pendingItems[1]>> ]]
     /\ BeginRun(pendingItems[1], b)
     /\ UNCHANGED <<downloadHistory, now, pastes, completions, uncaught>>

\* the Download All button, enabled while some item is pending: the
\* snapshot and the first downloadFile call, up to its first await; the
\* call takes the slot b
DownloadAll(b) ==
  LET pendingItems == PendingItems(mediaItems)
  IN /\ b \in DOMAIN batches
     /\ batches[b].pc = "idle"
     /\ \A c \in DOMAIN batches : c < b => batches[c].pc # "idle"
     /\ pendingItems # <<>>
     /\ batches' = [batches EXCEPT ![b] =
                      [ pendingItems |-> pendingItems, idx |-> 1,
                        pc |-> "await", ran |-> <<pendingItems[1]>> ]]
     /\ BeginRun(pendingItems[1], b)
     /\ UNCHANGED <<downloadHistory, now, pastes, completions, uncaught>>

\* the 500 ms timer of batches[b] fires: the next downloadFile call, or the
\* end of the loop, which frees the slot
DelayElapsed(b) ==
  /\ b \in DOMAIN batches
  /\ batches[b].pc = "delay"
  /\ IF batches[b].idx < Len(batches[b].pendingItems)
     THEN LET item == batches[b].pendingItems[batches[b].idx + 1]
          IN /\ batches' = [batches EXCEPT ![b].idx = @ + 1, ![b].pc = "await",
                                           ![b].ran = Append(@, item)]
             /\ BeginRun(item, b)
     ELSE /\ batches' = [batches EXCEPT ![b] = Idle]
          /\ UNCHANGED <<mediaItems, runs>>
  /\ UNCHANGED <<downloadHistory, now, pastes, completions, uncaught>>

\* ------------------------------------------------------------ environments
UrlA == HttpScheme \o <<"x","/","a",".","J","P","G">>
UrlB == HttpScheme \o <<"x","/","b",".","m","p","4">>
PaddedA == <<" ">> \o UrlA \o <<" ">>
Spaces == <<" "," ">>
NoHost == HttpScheme
UrlPic == HttpsScheme \o <<"x",".","t","e","s","t","/","p","i","c",".","J","P","G">>
UrlClip == HttpsScheme \o <<"x",".","t","e","s","t","/","c","l","i","p">>

\* the url of the k-th add of Spec: a.JPG, b.mp4, c, d.JPG, ...
NthUrl(k) ==
  HttpScheme \o <<"x", "/", LowerChars[k]>>
    \o (IF k % 3 = 1 THEN <<".","J","P","G">>
        ELSE IF k % 3 = 2 THEN <<".","m","p","4">>
        ELSE <<>>)
Inputs == {<<>>, Spaces, UrlA, UrlB, PaddedA, NoHost, UrlPic, UrlClip}

\* the content-length values and the chunk lengths the transport answers with
Totals == {0, 2}
ChunkSizes == {1, 2}

\* a handler calls addMediaItem a millisecond after the last Date.now():
\* the adds of one behaviour get distinct ids
LaterAdd(url) ==
  /\ now' = now + 1
  /\ mediaItems' = addMediaItem(mediaItems, mediaItems, url, now + 1)
  /\ uncaught' = addMediaItemThrows(mediaItems, url)
  /\ UNCHANGED <<downloadHistory, runs, batches, pastes, completions>>

\* a 500 ms timer of a downloadAll call fires
Timers == \E b \in DOMAIN batches : DelayElapsed(b)

\* the transport answers a downloadFile call of Spec: a content-length of 2
\* and chunks of 2 bytes
TransportSteps ==
  \/ \E r \in Running : FetchReject(r)
  \/ \E r \in Running, ok \in BOOLEAN : FetchRespond(r, ok, TRUE, 2)
  \/ \E r \in Running : r.received + 2 <= MaxReceived /\ ReadChunk(r, 2)
  \/ \E r \in Running : ReadDone(r)
  \/ \E r \in Running : ReadError(r)

\* the transfer engine and the batch orchestrator over a queue of up to
\* MaxAdds parsed urls added at distinct times
Next ==
  \/ now < MaxAdds /\ LaterAdd(NthUrl(now + 1))
  \/ \E i \in 1..Len(mediaItems) : RemoveMediaItem(i)
  \/ ClearCompleted
  \/ \E i \in 1..Len(mediaItems) : DownloadFile(i)
  \/ \E b \in 1..MaxBatches : DownloadAll(b)
  \/ Timers
  \/ TransportSteps

Spec == Init /\ [][Next]_vars

\* the transport answers a downloadFile call of SpecBatch: no content-length
BatchTransport ==
  \/ \E r \in Running : FetchReject(r)
  \/ \E r \in Running, ok \in BOOLEAN : FetchRespond(r, ok, TRUE, 0)
  \/ \E r \in Running : ReadDone(r)
  \/ \E r \in Running : ReadError(r)

\* downloadAll calls among manual downloads over a queue of up to MaxAdds
\* items that stay in it
NextBatch ==
  \/ now < MaxAdds /\ LaterAdd(NthUrl(now + 1))
  \/ \E i \in 1..Len(mediaItems) : DownloadFile(i)
  \/ \E b \in 1..MaxBatches : DownloadAll(b)
  \/ Timers
  \/ BatchTransport

SpecBatch == Init /\ [][NextBatch]_vars

\* SpecBatch with the event loop firing every timer that is set and the
\* transport answering every request and ending or failing every stream
FairBatch == SpecBatch /\ WF_vars(Timers) /\ WF_vars(BatchTransport)

\* the Download All button clicked while downloadAll calls are in progress,
\* over a queue of up to MaxAdds items
NextOverlap ==
  \/ now < MaxAdds /\ LaterAdd(NthUrl(now + 1))
  \/ \E b \in 1..MaxSlots : DownloadAll(b)
  \/ Timers
  \/ BatchTransport

SpecOverlap == Init /\ [][NextOverlap]_vars

\* the queue store under every input the handlers can be given
NextQueue ==
  \/ \E url \in Inputs : Len(mediaItems) < MaxQueueItems /\ AddMediaItem(url)
  \/ \E url \in Inputs : Len(mediaItems) < MaxQueueItems /\ HandleUrlSubmit(url)
  \/ \E text \in Inputs : Len(mediaItems) < MaxQueueItems /\ HandleDrop(text)
  \/ Len(pastes) < MaxPastes /\ HandlePaste
  \/ \E p \in 1..Len(pastes), text \in Inputs :
       Len(mediaItems) < MaxQueueItems /\ PasteResolve(p, text)
  \/ \E p \in 1..Len(pastes) : PasteReject(p)
  \/ \E i \in 1..Len(mediaItems) : RemoveMediaItem(i)
  \/ Tick

SpecQueue == Init /\ [][NextQueue]_vars

\* room for one more transfer below cap logged completions
Room(cap) == Len(completions) + BagCardinality(runs) < cap

\* one item at a time under every answer of the transport
NextRun ==
  \/ Len(mediaItems) < 1 /\ AddMediaItem(UrlA)
  \/ \E i \in 1..Len(mediaItems) : RemoveMediaItem(i)
  \/ ClearCompleted
  \/ ClearHistory
  \/ Tick
  \/ \E i \in 1..Len(mediaItems) : Room(MaxRunLog) /\ DownloadFile(i)
  \/ \E r \in Running : FetchReject(r)
  \/ \E r \in Running, ok \in BOOLEAN, hasBody \in BOOLEAN, total \in Totals :
       FetchRespond(r, ok, hasBody, total)
  \/ \E r \in Running, n \in ChunkSizes :
       r.received + n <= MaxRunReceived /\ ReadChunk(r, n)
  \/ \E r \in Running : ReadDone(r)
  \/ \E r \in Running : ReadError(r)

SpecRun == Init /\ [][NextRun]_vars

\* sequential downloads of one url, as many as fill the log and more
NextHist ==
  \/ Len(mediaItems) < 1 /\ AddMediaItem(UrlA)
  \/ \E i \in 1..Len(mediaItems) : RemoveMediaItem(i)
  \/ ClearCompleted
  \/ ClearHistory
  \/ Tick
  \/ \E i \in 1..Len(mediaItems) :
       Running = {} /\ Room(MaxHistLog) /\ DownloadFile(i)
  \/ \E r \in Running, ok \in BOOLEAN : FetchRespond(r, ok, TRUE, 0)
  \/ \E r \in Running : ReadDone(r)

SpecHist == Init /\ [][NextHist]_vars

\* transfers and batches of one url interleaved, as many as fill the log
\* and more, all within one millisecond
NextCap ==
  \/ Len(mediaItems) < 1 /\ AddMediaItem(UrlA)
  \/ \E i \in 1..Len(mediaItems) : RemoveMediaItem(i)
  \/ ClearCompleted
  \/ ClearHistory
  \/ \E i \in 1..Len(mediaItems) :
       BagCardinality(runs) < MaxCapRuns /\ Room(MaxHistLog) /\ DownloadFile(i)
  \/ \E b \in 1..MaxBatches :
       BagCardinality(runs) < MaxCapRuns /\ Room(MaxHistLog) /\ DownloadAll(b)
  \/ \E b \in DOMAIN batches : DelayElapsed(b)
  \/ \E r \in Running : FetchReject(r)
  \/ \E r \in Running, ok \in BOOLEAN : FetchRespond(r, ok, TRUE, 0)
  \/ \E r \in Running : ReadDone(r)
  \/ \E r \in Running : ReadError(r)

SpecCap == Init /\ [][NextCap]_vars

\* ------------------------------------------------------------ history log
\* C1: in every reachable state the history log holds at most 50 entries
\* (the new head and the HistoryKeep entries kept below it).
C1_HistoryAtMost50 == Len(downloadHistory) <= HistoryKeep + 1

\* the log is full and its oldest entry has just been evicted
C1_Witness ==
  /\ Len(downloadHistory) = HistoryKeep + 1
  /\ Len(completions) = HistoryKeep + 2

\* C2: with N completions since the log was last emptied, the log is the
\* min(N, 50) most recent of them, most recent first: every run inserts at
\* the head, keeps the order of the rest and evicts only the oldest, only
\* when the log held 50.
C2_MostRecentFirst ==
  /\ Len(downloadHistory) = Min(Len(completions), HistoryKeep + 1)
  /\ \A i \in 1..Len(downloadHistory) :
       downloadHistory[i] = completions[Len(completions) + 1 - i]

\* more completions than the log holds, told apart by their times
C2_Witness ==
  /\ Len(completions) = MaxHistLog
  /\ Len(downloadHistory) = HistoryKeep + 1
  /\ downloadHistory[1].id # downloadHistory[HistoryKeep + 1].id

\* --------------------------------------------------------- item lifecycle
StatusStep(a, b) ==
  \/ a = b
  \/ a = "pending" /\ b = "downloading"
  \/ a = "downloading" /\ b \in {"completed", "error"}

\* C3: in every step, an item that stays in the queue keeps its status or
\* moves pending -> downloading, downloading -> completed or
\* downloading -> error; a completed or error item never changes status.
C3_StatusTransitions ==
  [][\A i \in 1..Len(mediaItems), j \in 1..Len(mediaItems') :
       mediaItems[i].id = mediaItems'[j].id
         => StatusStep(mediaItems[i].status, mediaItems'[j].status)]_vars

\* the step takes the downloadFile call r from the position it was at, as
\* every step of the call does
Leaves(r) == CopiesIn(r, runs') < CopiesIn(r, runs)

\* the steps of the downloadFile call r
Succeeds(r) ==
  /\ Leaves(r)
  /\ ReadDone(r) \/ \E total \in Totals : FetchRespond(r, TRUE, FALSE, total)

Fails(r) ==
  /\ Leaves(r)
  /\ \/ FetchReject(r)
     \/ \E hasBody \in BOOLEAN, total \in Totals :
          FetchRespond(r, FALSE, hasBody, total)
     \/ ReadError(r)

Streams(r) ==
  /\ Leaves(r)
  /\ \/ \E total \in Totals : FetchRespond(r, TRUE, TRUE, total)
     \/ \E n \in ChunkSizes : ReadChunk(r, n)

\* C4: a run of a pending item sets it to downloading with progress 0, its
\* later steps leave the status alone, and when the stream ends without
\* error the run sets the item to completed with progress 100 and puts one
\* entry with the item's filename, url and type at the head of the log,
\* above the entries that were there.
C4_SuccessfulRun ==
  [][/\ \A i \in 1..Len(mediaItems) :
          DownloadFile(i) =>
            /\ Len(mediaItems') = Len(mediaItems)
            /\ mediaItems'[i].status = "downloading"
            /\ mediaItems'[i].progress = Some(0)
     /\ \A r \in Running :
          Streams(r) =>
            /\ Len(mediaItems') = Len(mediaItems)
            /\ \A i \in 1..Len(mediaItems) :
                 mediaItems'[i].status = mediaItems[i].status
     /\ \A r \in Running :
          Succeeds(r) =>
            /\ Len(mediaItems') = Len(mediaItems)
            /\ \A i \in 1..Len(mediaItems) :
                 mediaItems[i].id = r.item.id =>
                   /\ mediaItems'[i].status = "completed"
                   /\ mediaItems'[i].progress = Some(100)
                   /\ downloadHistory'[1].url = mediaItems[i].url
            /\ Len(downloadHistory') = Min(Len(downloadHistory) + 1, HistoryKeep + 1)
            /\ downloadHistory'[1].filename = r.item.filename
            /\ downloadHistory'[1].url = r.item.url
            /\ downloadHistory'[1].type = r.item.type
            /\ \A k \in 2..Len(downloadHistory') :
                 downloadHistory'[k] = downloadHistory[k - 1]]_vars

\* a transfer has just completed: the item is completed at 100 and the
\* head of the log carries its filename, url and type
C4_Witness ==
  /\ Running = {}
  /\ Len(downloadHistory) = 1
  /\ \E i \in 1..Len(mediaItems) :
       /\ mediaItems[i].status = "completed"
       /\ mediaItems[i].progress = Some(100)
       /\ downloadHistory[1].filename = mediaItems[i].filename
       /\ downloadHistory[1].url = mediaItems[i].url
       /\ downloadHistory[1].type = mediaItems[i].type

\* C5: when the transport fails (fetch rejected, response not ok, read
\* error) the run sets the item to error and leaves its progress and every
\* other item as they were; neither that step nor any earlier step of the
\* run changes the history log.
C5_FailedRun ==
  [][/\ \A r \in Running :
          Fails(r) =>
            /\ Len(mediaItems') = Len(mediaItems)
            /\ \A i \in 1..Len(mediaItems) :
                 mediaItems'[i] =
                   IF mediaItems[i].id = r.item.id
                   THEN [mediaItems[i] EXCEPT !.status = "error"]
                   ELSE mediaItems[i]
            /\ downloadHistory' = downloadHistory
     /\ \A r \in Running : Streams(r) => downloadHistory' = downloadHistory
     /\ \A i \in 1..Len(mediaItems) :
          DownloadFile(i) =>
            /\ mediaItems'[i].status = "downloading"
            /\ downloadHistory' = downloadHistory]_vars

\* a read error after half of the bytes, with an earlier entry in the log
C5_Witness ==
  /\ Running = {}
  /\ Len(downloadHistory) = 1
  /\ \E i \in 1..Len(mediaItems) :
       /\ mediaItems[i].status = "error"
       /\ mediaItems[i].progress = Some(50)

\* ------------------------------------------------------------ queue store
\* C6: in every reachable state no two items of the queue have the same url.
C6_UniqueUrls ==
  \A i, j \in 1..Len(mediaItems) :
    i # j => mediaItems[i].url # mediaItems[j].url

IsBlank(url) == \A k \in 1..Len(url) : url[k] = " "

\* C7: addMediaItem(url) leaves the queue unchanged when url is empty or
\* white space; when url is non-blank and no item has it, it appends one
\* pending item and leaves the items before it as they were.
C7_AddEffect ==
  [][\A url \in Inputs :
       AddMediaItem(url) =>
         IF IsBlank(url) THEN mediaItems' = mediaItems
         ELSE (\A i \in 1..Len(mediaItems) : mediaItems[i].url # Trim(url)) =>
                /\ Len(mediaItems') = Len(mediaItems) + 1
                /\ SubSeq(mediaItems', 1, Len(mediaItems)) = mediaItems
                /\ mediaItems'[Len(mediaItems')].status = "pending"]_vars

\* ------------------------------------------------------ batch orchestrator
\* the downloadFile calls of batches[b] in flight
RunsOf(b) == {r \in Running : r.owner = b}

Active(b) == batches[b].pc # "idle"

\* any step of the downloadFile call r after its start
RunStep(r) == Streams(r) \/ Succeeds(r) \/ Fails(r)

\* P holds exactly the pending entries of items, in the order of items
IsPendingOf(P, items) ==
  /\ Len(P) = Cardinality({i \in 1..Len(items) : items[i].status = "pending"})
  /\ \A j \in 1..Len(P) :
       P[j].status = "pending" /\ \E i \in 1..Len(items) : items[i] = P[j]
  /\ \A j1, j2 \in 1..Len(P) :
       j1 < j2 => \E i1, i2 \in 1..Len(items) :
                    i1 < i2 /\ items[i1] = P[j1] /\ items[i2] = P[j2]

\* the step leaves every queue entry whose id is not id as it was
TouchesOnly(id) ==
  /\ Len(mediaItems') = Len(mediaItems)
  /\ \A i \in 1..Len(mediaItems) :
       mediaItems[i].id # id => mediaItems'[i] = mediaItems[i]

\* C8: a downloadAll call snapshots exactly the items pending when it is
\* called, in queue order; the snapshot never changes afterwards (items
\* added later are not in it); the call runs the snapshot items one after
\* the other in that order, all of them by the time it ends; and each of
\* its steps changes only queue entries with the id of the snapshot item it
\* is running.
C8_BatchRunsSnapshot ==
  /\ [](\A b \in DOMAIN batches :
          Active(b) =>
            /\ batches[b].idx \in 1..Len(batches[b].pendingItems)
            /\ batches[b].ran = SubSeq(batches[b].pendingItems, 1, batches[b].idx)
            /\ \A r \in RunsOf(b) :
                 r.item = Captured(batches[b].pendingItems[batches[b].idx]))
  /\ [][\A b \in DOMAIN batches :
          /\ DownloadAll(b) =>
               /\ IsPendingOf(batches'[b].pendingItems, mediaItems)
               /\ TouchesOnly(batches'[b].pendingItems[1].id)
          /\ (Active(b) /\ batches'[b].pc # "idle") =>
               batches'[b].pendingItems = batches[b].pendingItems
          /\ (Active(b) /\ batches'[b].pc = "idle") =>
               /\ batches[b].ran = batches[b].pendingItems
               /\ mediaItems' = mediaItems
          /\ (DelayElapsed(b) /\ batches'[b].pc # "idle") =>
               TouchesOnly(batches'[b].pendingItems[batches'[b].idx].id)
          /\ \A r \in RunsOf(b) :
               ~TouchesOnly(batches[b].pendingItems[batches[b].idx].id) =>
                 ~RunStep(r)]_vars

\* the queue is [first, second], the first item was downloading when
\* downloadAll was called and still is, untouched, after the call has run
\* the second, its whole snapshot
C8_Witness ==
  \E b \in DOMAIN batches :
    /\ batches[b].pc = "delay"
    /\ Len(batches[b].pendingItems) = 1
    /\ Len(mediaItems) = 2
    /\ mediaItems[2].id = batches[b].pendingItems[1].id
    /\ mediaItems[2].status \in {"completed", "error"}
    /\ mediaItems[1].status = "downloading"
    /\ mediaItems[1].progress = Some(0)

\* C9: a downloadAll call has at most one transfer in flight, exactly
\* while it awaits downloadFile; it starts the transfer of the next
\* snapshot item only from its timer, after the transfer before has
\* returned, and a transfer returns only by setting its item to completed
\* or error.
C9_OneTransferPerBatch ==
  /\ [](\A b \in DOMAIN batches :
          /\ (batches[b].pc = "await") <=> (RunsOf(b) # {})
          /\ \A r1, r2 \in RunsOf(b) : r1 = r2 /\ CopiesIn(r1, runs) = 1)
  /\ [][\A b \in DOMAIN batches :
          /\ (Active(b) /\ batches'[b].pc # "idle"
                /\ batches'[b].idx # batches[b].idx) =>
               /\ batches[b].pc = "delay"
               /\ RunsOf(b) = {}
               /\ batches'[b].idx = batches[b].idx + 1
          /\ \A r \in RunsOf(b) :
               (Succeeds(r) \/ Fails(r)) =>
                 /\ batches'[b].pc = "delay"
                 /\ \A i \in 1..Len(mediaItems') :
                      mediaItems'[i].id = r.item.id =>
                        mediaItems'[i].status \in {"completed", "error"}]_vars

\* the second transfer of a batch is in flight and the first item is
\* completed
C9_Witness ==
  \E b \in DOMAIN batches :
    /\ batches[b].pc = "await"
    /\ batches[b].idx = 2
    /\ RunsOf(b) # {}
    /\ \E i \in 1..Len(mediaItems) :
         /\ mediaItems[i].id = batches[b].pendingItems[1].id
         /\ mediaItems[i].status = "completed"

\* C10: a transfer that fails returns to the downloadAll call like one
\* that succeeds: the call goes on to its timer with its snapshot and
\* position kept, the timer starts the transfer of the next snapshot item
\* whatever the outcome before, the call ends only after it has run its
\* whole snapshot, and every call does end.
C10_FailureDoesNotAbort ==
  /\ [][\A b \in DOMAIN batches :
          /\ \A r \in RunsOf(b) :
               Fails(r) => batches'[b] = [batches[b] EXCEPT !.pc = "delay"]
          /\ (batches[b].pc = "delay"
                /\ batches[b].idx < Len(batches[b].pendingItems)
                /\ batches'[b] # batches[b]) =>
               /\ batches'[b].pc = "await"
               /\ \E r \in BagToSet(runs') :
                    /\ r.owner = b
                    /\ r.pc = "fetch"
                    /\ r.item = Captured(batches[b].pendingItems[batches[b].idx + 1])
          /\ (Active(b) /\ batches'[b].pc = "idle") =>
               /\ batches[b].pc = "delay"
               /\ batches[b].idx = Len(batches[b].pendingItems)]_vars
  /\ \A b \in 1..MaxBatches : [](Active(b) => <>(~Active(b)))

\* the first item of a batch has failed and the second is being transferred
C10_Witness ==
  \E b \in DOMAIN batches :
    /\ batches[b].pc = "await"
    /\ batches[b].idx = 2
    /\ \E i \in 1..Len(mediaItems) :
         /\ mediaItems[i].id = batches[b].pendingItems[1].id
         /\ mediaItems[i].status = "error"

\* ---------------------------------------------------------- clearCompleted
\* the position in items of the j-th item that is not completed
KeptAt(items, j) ==
  CHOOSE k \in 1..Len(items) :
    /\ items[k].status # "completed"
    /\ Cardinality({x \in 1..k : items[x].status # "completed"}) = j

\* C11: clearCompleted leaves in the queue the items that are not
\* completed, all of them, each as it was and in the order they had, and
\* leaves the history log as it was.
C11_ClearCompletedFrame ==
  [][ClearCompleted =>
       /\ Len(mediaItems') =
            Cardinality({i \in 1..Len(mediaItems) :
                           mediaItems[i].status # "completed"})
       /\ \A j \in 1..Len(mediaItems') :
            mediaItems'[j] = mediaItems[KeptAt(mediaItems, j)]
       /\ downloadHistory' = downloadHistory]_vars

\* clearCompleted is about to run on a completed item followed by an item
\* in error, with an entry in the log
C11_Witness ==
  /\ Len(mediaItems) = 2
  /\ mediaItems[1].status = "completed"
  /\ mediaItems[2].status = "error"
  /\ downloadHistory # <<>>

\* ---------------------------------------------------------------- progress
\* C12: a progress that is set is a percentage between 0 and 100.
C12_ProgressInRange ==
  \A i \in 1..Len(mediaItems) :
    mediaItems[i].progress # Undefined =>
      /\ mediaItems[i].progress[1] >= 0
      /\ mediaItems[i].progress[1] <= 100

\* C13: no step lowers the progress of an item that is downloading before
\* and after the step.
C13_ProgressMonotone ==
  [][\A i \in 1..Len(mediaItems), j \in 1..Len(mediaItems') :
       (/\ mediaItems[i].id = mediaItems'[j].id
        /\ mediaItems[i].status = "downloading"
        /\ mediaItems'[j].status = "downloading"
        /\ mediaItems[i].progress # Undefined) =>
         /\ mediaItems'[j].progress # Undefined
         /\ mediaItems'[j].progress[1] >= mediaItems[i].progress[1]]_vars

\* -------------------------------------------------------------- classifier
\* C14: getMediaType and generateFilename return a value for every string,
\* and addMediaItem of a non-blank string completes without an error.
C14_ClassifierNeverFails ==
  [][\A url \in Inputs :
       (AddMediaItem(url) /\ ~IsBlank(url)) =>
         /\ ~getMediaTypeThrows(Trim(url))
         /\ ~generateFilenameThrows(Trim(url))
         /\ ~uncaught']_vars

\* ------------------------------------------------------- history log frame
\* the step puts one entry at the head of the log and keeps the entries
\* below it in their order, dropping at most the last one
HeadAppend ==
  /\ Len(downloadHistory') >= 1
  /\ Len(downloadHistory') \in {Len(downloadHistory), Len(downloadHistory) + 1}
  /\ SubSeq(downloadHistory', 2, Len(downloadHistory')) =
       SubSeq(downloadHistory, 1, Len(downloadHistory') - 1)

C16_UniqueIds ==
  \A i, j \in 1..Len(mediaItems) :
    i # j => mediaItems[i].id # mediaItems[j].id

\* ------------------------------------------------------------ update frame
\* the step keeps the length and the order of the queue and the id, url,
\* type and filename of every item, and changes no item whose id is not id
UpdatesOnly(id) ==
  /\ Len(mediaItems') = Len(mediaItems)
  /\ \A i \in 1..Len(mediaItems) :
       /\ mediaItems'[i].id = mediaItems[i].id
       /\ mediaItems'[i].url = mediaItems[i].url
       /\ mediaItems'[i].type = mediaItems[i].type
       /\ mediaItems'[i].filename = mediaItems[i].filename
       /\ mediaItems[i].id # id => mediaItems'[i] = mediaItems[i]
  /\ ~HasId(mediaItems, id) => mediaItems' = mediaItems

\* C17: every step of a downloadFile call, its start from a Download
\* button or from a downloadAll call included, changes only the status and
\* the progress of the items with the id of the call's item, and leaves the
\* queue as it was when that item has been removed: a step that does more
\* to the queue is not a step of the call.
C17_UpdateFrame ==
  [][/\ \A i \in 1..Len(mediaItems) :
          ~UpdatesOnly(mediaItems[i].id) => ~DownloadFile(i)
     /\ \A b \in DOMAIN batches :
          /\ DownloadAll(b) => UpdatesOnly(batches'[b].pendingItems[1].id)
          /\ (DelayElapsed(b) /\ batches'[b].pc # "idle") =>
               UpdatesOnly(batches'[b].pendingItems[batches'[b].idx].id)
     /\ \A r \in Running : ~UpdatesOnly(r.item.id) => ~RunStep(r)]_vars

\* a downloadFile call is reading the stream of an item that has been
\* removed from a queue that holds another item
C17_Witness ==
  \E r \in Running :
    /\ r.pc = "read"
    /\ ~HasId(mediaItems, r.item.id)
    /\ Len(mediaItems) >= 1

\* -------------------------------------------------------------- one batch
\* the downloadFile calls in flight that downloadAll calls have made
BatchRuns == {r \in Running : r.owner # 0}

\* C18: in every reachable state at most one downloadAll call is in
\* progress and at most one downloadFile call made by a downloadAll call is
\* in flight.
C18_OneBatchAtATime ==
  /\ Cardinality({b \in DOMAIN batches : Active(b)}) <= 1
  /\ \A r1, r2 \in BatchRuns : r1 = r2 /\ CopiesIn(r1, runs) = 1

\* ------------------------------------------------------------- termination
\* the queue holds an item with this id and one of these statuses
HasStatus(id, statuses) ==
  \E i \in 1..Len(mediaItems) :
    mediaItems[i].id = id /\ mediaItems[i].status \in statuses

\* C19: when the timers fire and the transport answers every request and
\* ends or fails every stream, an item that is downloading is later
\* completed or in error, unless it has left the queue.
C19_RunReachesTerminal ==
  \A id \in 1..MaxAdds :
    [](HasStatus(id, {"downloading"}) =>
         <>(HasStatus(id, {"completed", "error"}) \/ ~HasId(mediaItems, id)))

\* every item of the queue has been downloading and is completed or in
\* error, one of each, and no transfer is left
C19_Witness ==
  /\ Running = {}
  /\ Len(mediaItems) = 2
  /\ HasStatus(mediaItems[1].id, {"completed"})
  /\ HasStatus(mediaItems[2].id, {"error"})

\* --------------------------------------------------------------- filenames
\* the last segment of the path of url
LastSegment(url) == LastPart(Pathname(url), "/")

\* C20: the filename of an item is the last path segment of its url when
\* that segment holds a ".", and the segment followed by "." otherwise:
\* pic.JPG for https://x.test/pic.JPG and "clip." for https://x.test/clip.
C20_DeriveFilename ==
  \A i \in 1..Len(mediaItems) :
    LET item == mediaItems[i]
        seg == LastSegment(item.url)
    IN /\ seg # <<>> =>
            item.filename = IF Includes(seg, ".") THEN seg ELSE seg \o <<".">>
       /\ item.url = UrlPic => item.filename = <<"p","i","c",".","J","P","G">>
       /\ item.url = UrlClip => item.filename = <<"c","l","i","p",".">>

\* ------------------------------------------------------- start of a transfer
\* the items of the queue with this id are pending
PendingNow(id) ==
  \A i \in 1..Len(mediaItems) :
    mediaItems[i].id = id => mediaItems[i].status = "pending"

\* C21: every step that starts a downloadFile call, from a Download button
\* or from a downloadAll call working through its snapshot, finds the item
\* pending in the queue; and no two entries of the log come from one add.
C21_StartsOnlyOnPending ==
  /\ [][/\ \A i \in 1..Len(mediaItems) :
             DownloadFile(i) => PendingNow(mediaItems[i].id)
        /\ \A b \in DOMAIN batches :
             /\ DownloadAll(b) => PendingNow(batches'[b].pendingItems[1].id)
             /\ (DelayElapsed(b) /\ batches'[b].pc # "idle") =>
                  PendingNow(batches'[b].pendingItems[batches'[b].idx].id)]_vars
  /\ [](\A j1, j2 \in 1..Len(completions) :
          j1 # j2 => completions[j1].url # completions[j2].url)
====
